---- MODULE Spec2Model ----
(***************************************************************************)
(* A model of the RustOperator controller (src/main.rs, src/controller.rs, *)
(* src/resources.rs, src/crd.rs): one Resource "web" in one namespace, the *)
(* four dependent objects the controller keeps for it, the object store    *)
(* they live in, and one reconcile at a time stepping from store call to   *)
(* store call while the user, the workload controller, the watch and the   *)
(* store's garbage collector act in between.                               *)
(*                                                                         *)
(* Text that the code trims or serialises (html, ingress_host,             *)
(* tls_secret_name) is a sequence of one-character strings; text the code  *)
(* only copies or concatenates (message, service_type, names) is a string. *)
(* Option<T> is a sequence of length at most one.                          *)
(***************************************************************************)
EXTENDS Integers, Sequences, FiniteSets, TLC

VARIABLES
    res,        \* the Resource in the store
    kids,       \* the dependent objects in the store, by kind
    deployReady,\* status.readyReplicas of the stored Deployment
    cache,      \* the watch's last view of the Resource (what reconcile gets)
    pc,         \* where the one reconcile in flight stands
    obj,        \* the instance the reconcile in flight was given
    deploy_obj, \* the Deployment returned by the Deployment apply
    new_status, \* the status the run computed
    writes,     \* the store writes the run has issued, in order
    last,       \* how the last finished run ended
    fails,      \* consecutive failed runs
    edits,      \* spec edits the user has made
    hist,       \* what has happened to the Resource so far
    pure,       \* the call under test of the pure-function specification
    other       \* a second reconcile of the same identity, while it is suspended

vars == <<res, kids, deployReady, cache, pc, obj, deploy_obj, new_status,
          writes, last, fails, edits, hist, pure, other>>

ctlVars == <<res, kids, deployReady, cache, pc, obj, deploy_obj, new_status,
             writes, last, fails, edits, hist, other>>

----
(* Bounds of the model *)

MaxEdits == 1
MaxFails == 2
MaxConds == 2

----
(* Option, text *)

None == <<>>
Some(x) == <<x>>
IsSome(o) == o # <<>>
Unwrap(o) == o[1]
UnwrapOr(o, d) == IF o = <<>> THEN d ELSE o[1]

IsWhitespace(c) == c \in {" ", "\t"}

RECURSIVE TrimStart(_)
TrimStart(s) ==
    IF s = <<>> THEN <<>>
    ELSE IF IsWhitespace(Head(s)) THEN TrimStart(Tail(s)) ELSE s

RECURSIVE TrimEnd(_)
TrimEnd(s) ==
    IF s = <<>> THEN <<>>
    ELSE IF IsWhitespace(s[Len(s)]) THEN TrimEnd(SubSeq(s, 1, Len(s) - 1)) ELSE s

Trim(s) == TrimEnd(TrimStart(s))

is_empty(s) == Len(s) = 0

----
(* Program constants *)

FINALIZER == "rustoperators.rootster.xyz/finalizer"
OtherFinalizer == "example.com/other-finalizer"
ROLLOUT_ANNOTATION == "rootster.xyz/rollout-hash"
PLACEHOLDER == <<"<!doctype html><html><body><h1>Hello from Rust operator</h1></body></html>">>
RequeueOk == 30
RequeueErr == 10
HttpPort == 80

Name == "web"

----
(* Desired-State Builder, Rollout Fingerprinter, Condition Upsert *)

\* Faulty variant: the instance label does not name the Resource
labels_static(name) ==
    ("app.kubernetes.io/name" :> "webapp") @@ ("app.kubernetes.io/instance" :> "webapp")

labels(name) ==
    ("app.kubernetes.io/name" :> "webapp") @@ ("app.kubernetes.io/instance" :> name)

\* Faulty variant: the reference is marked controller only once a status is stored
controller_owner_ref_by_status(o) ==
    IF o.uid = None THEN None
    ELSE Some([kind |-> "RustOperator", name |-> o.name, uid |-> Unwrap(o.uid),
               controller |-> o.status # None])

controller_owner_ref(o) ==
    IF o.uid = None THEN None
    ELSE Some([kind |-> "RustOperator", name |-> o.name, uid |-> Unwrap(o.uid),
               controller |-> TRUE])

\* Faulty variant: the page is stored trimmed
desired_configmap_trimmed(name, lbls, html, owner) ==
    LET content == IF is_empty(Trim(html)) THEN PLACEHOLDER ELSE Trim(html)
    IN  [kind |-> "ConfigMap", name |-> name, labels |-> lbls,
         owner_references |-> <<owner>>,
         data |-> ("index.html" :> content)]

desired_configmap(name, lbls, html, owner) ==
    LET content == IF is_empty(Trim(html)) THEN PLACEHOLDER ELSE html
    IN  [kind |-> "ConfigMap", name |-> name, labels |-> lbls,
         owner_references |-> <<owner>>,
         data |-> ("index.html" :> content)]

\* serde_json's string escaping, on the characters of the model's alphabet
JsonEscapeChar(c) ==
    IF c = "\"" THEN <<"\\", "\"">>
    ELSE IF c = "\\" THEN <<"\\", "\\">>
    ELSE IF c = "\t" THEN <<"\\", "t">>
    ELSE <<c>>

RECURSIVE JsonEscape(_)
JsonEscape(s) ==
    IF s = <<>> THEN <<>> ELSE JsonEscapeChar(Head(s)) \o JsonEscape(Tail(s))

\* serde_json::to_vec(&RolloutInputs { html })
RolloutInputsJson(inp) ==
    <<"{", "\"", "h", "t", "m", "l", "\"", ":", "\"">> \o JsonEscape(inp.html) \o <<"\"", "}">>

\* SHA-256 in lower-case hex, taken as collision-free: the digest stands for
\* exactly one byte string
Sha256Hex(bytes) == [sha256 |-> bytes]

\* Faulty variant: the fingerprint is taken of the trimmed html
RolloutInputsTrimmed(spec) == [html |-> Trim(spec.html)]

RolloutInputs(spec) == [html |-> spec.html]

rollout_fingerprint(inp) == Sha256Hex(RolloutInputsJson(inp))

desired_deployment(name, lbls, replicas, owner, spec) ==
    LET fp == rollout_fingerprint(RolloutInputs(spec))
    IN  [kind |-> "Deployment", name |-> name, labels |-> lbls,
         owner_references |-> <<owner>>,
         replicas |-> replicas,
         selector |-> lbls,
         template_labels |-> lbls,
         template_annotations |-> <<[key |-> ROLLOUT_ANNOTATION, value |-> fp]>>,
         container_port |-> HttpPort,
         volume_configmap |-> name]

\* Faulty variant: the Service gets the Resource's name
desired_service_plain_name(name, lbls, svc_type, owner) ==
    [kind |-> "Service", name |-> name, labels |-> lbls,
     owner_references |-> <<owner>>,
     selector |-> lbls,
     port |-> HttpPort, target_port |-> HttpPort,
     type |-> svc_type]

desired_service(name, lbls, svc_type, owner) ==
    [kind |-> "Service", name |-> name \o "-service", labels |-> lbls,
     owner_references |-> <<owner>>,
     selector |-> lbls,
     port |-> HttpPort, target_port |-> HttpPort,
     type |-> svc_type]

\* Faulty variant: the TLS block names the host only
desired_ingress_no_secret(name, lbls, svc_name, host, tls_secret, owner) ==
    LET tls == IF is_empty(tls_secret) THEN None
               ELSE Some([hosts |-> <<host>>, secret_name |-> <<>>])
    IN  [kind |-> "Ingress", name |-> name, labels |-> lbls,
         owner_references |-> <<owner>>,
         rule_host |-> host, path |-> "/", path_type |-> "Prefix",
         backend_service |-> svc_name, backend_port |-> HttpPort,
         tls |-> tls]

desired_ingress(name, lbls, svc_name, host, tls_secret, owner) ==
    LET tls == IF is_empty(tls_secret) THEN None
               ELSE Some([hosts |-> <<host>>, secret_name |-> tls_secret])
    IN  [kind |-> "Ingress", name |-> name, labels |-> lbls,
         owner_references |-> <<owner>>,
         rule_host |-> host, path |-> "/", path_type |-> "Prefix",
         backend_service |-> svc_name, backend_port |-> HttpPort,
         tls |-> tls]

\* list.iter().position(|c| c.type_ == newc.type_)
Position(list, type) ==
    LET hits == {i \in 1..Len(list) : list[i].type = type}
    IN  IF hits = {} THEN None
        ELSE Some(CHOOSE i \in hits : \A j \in hits : i <= j)

\* Faulty variant: the new condition is always pushed
upsert_condition_push(list, newc) == Append(list, newc)

upsert_condition(list, newc) ==
    LET p == Position(list, newc.type)
    IN  IF IsSome(p) THEN [list EXCEPT ![Unwrap(p)] = newc]
        ELSE Append(list, newc)

----
(* The Resource and its spec (src/crd.rs) *)

SpecA == [message |-> "hi", html |-> <<>>, replicas |-> 1, service_type |-> "ClusterIP",
          ingress_host |-> <<>>, tls_secret_name |-> <<>>]
SpecB == [SpecA EXCEPT !.ingress_host = <<"e">>]
SpecC == [SpecB EXCEPT !.tls_secret_name = <<"t">>]
SpecD == [message |-> "yo", html |-> <<"h">>, replicas |-> 1, service_type |-> "NodePort",
          ingress_host |-> <<" ">>, tls_secret_name |-> <<>>]

SpecPool == {SpecA, SpecB, SpecD}

DefaultStatus == [observed_message |-> None, ready_replicas |-> None, conditions |-> None]

Kinds == {"ConfigMap", "Deployment", "Service", "Ingress"}

\* What a reconcile reads of the instance it is given
View(r) == [name |-> r.name, uid |-> r.uid, deleting |-> r.deleting,
            spec |-> r.spec, status |-> r.status]

NoObj == [name |-> Name, uid |-> None, deleting |-> FALSE, spec |-> SpecA, status |-> None]

----
(* The object store, at its interface *)

ToSet(s) == {s[i] : i \in 1..Len(s)}

\* A merge patch of metadata.finalizers replaces the list; the store refuses
\* a patch of an absent object and a new finalizer on an object being deleted
FinalizersPatchAccepted(r, fins) ==
    /\ r.exists
    /\ r.deleting => ToSet(fins) \subseteq ToSet(r.finalizers)

\* The store removes an object being deleted once its finalizer list is empty
\* (what is left of it here is its uid, which its dependents still refer to)
Gone(r) == [exists |-> FALSE, deleting |-> TRUE, name |-> r.name, uid |-> r.uid,
            finalizers |-> <<>>, spec |-> SpecA, status |-> None]

Settle(r) ==
    IF r.exists /\ r.deleting /\ r.finalizers = <<>>
    THEN Gone(r)
    ELSE r

PatchFinalizers(r, fins) == Settle([r EXCEPT !.finalizers = fins])

\* A JSON merge patch of one object: a null member removes the key, any other
\* replaces its value (arrays included)
MergeKey(old, new) == IF new = None THEN None ELSE new

MergeStatus(old, patch) ==
    LET base == UnwrapOr(old, DefaultStatus)
    IN  Some([observed_message |-> MergeKey(base.observed_message, patch.observed_message),
              ready_replicas   |-> MergeKey(base.ready_replicas, patch.ready_replicas),
              conditions       |-> MergeKey(base.conditions, patch.conditions)])

\* Outcomes the store can give a write of the Resource, an apply, a delete
PatchOutcomes(accepted) == IF accepted THEN {"ok", "err"} ELSE {"err"}
ApplyOutcomes == {"ok", "err"}
DeleteOutcomes(kind) == IF kids[kind] = None THEN {"not_found", "err"} ELSE {"ok", "err"}

----
(* Reconcile Engine (src/main.rs, src/controller.rs) *)

requeue(d) == [requeue_after |-> Some(d)]
await_change == [requeue_after |-> None]

\* Faulty variant: the retry delay doubles with every consecutive failure
error_policy_backoff(o, err) ==
    [requeue_after |-> Some(RequeueErr * (2 ^ fails))]

error_policy(o, err) == requeue(RequeueErr)

\* Faulty variant: the patch body is empty whatever `present` is
FinalizerPatchEmpty(present) == <<>>

\* ensure_finalizer's patch body
FinalizerPatch(present) == IF present THEN <<FINALIZER>> ELSE <<>>

\* Faulty variant: the deletes are awaited with `?` like every other write
PropagatesDeletes(op, outcome) == outcome # "ok"

\* Faulty variant: the result of the finalizer write is dropped too
PropagatesAppliesOnly(op, outcome) ==
    /\ outcome # "ok"
    /\ op \in {"apply", "patch_status"}

\* `.await?` on every write but the deletes, whose results are dropped
Propagates(op, outcome) ==
    /\ outcome # "ok"
    /\ op # "delete"

IngressWanted(spec) == ~is_empty(Trim(spec.ingress_host))

ReadyOf(d) == UnwrapOr(d.ready_replicas, 0)

\* Faulty variant: readiness is tested with >= instead of >
ready_condition_ge(ready) ==
    [type    |-> "Ready",
     status  |-> IF ready >= 0 THEN "True" ELSE "False",
     reason  |-> Some(IF ready >= 0 THEN "PodsAvailable" ELSE "Scaling"),
     message |-> Some(<<"ready_replicas=", ready>>)]

ready_condition(ready) ==
    [type    |-> "Ready",
     status  |-> IF ready > 0 THEN "True" ELSE "False",
     reason  |-> Some(IF ready > 0 THEN "PodsAvailable" ELSE "Scaling"),
     message |-> Some(<<"ready_replicas=", ready>>)]

\* Faulty variant: the status also carries a condition about the last failure
ComputeStatusWithFailure(o, ready) ==
    LET base == UnwrapOr(o.status, DefaultStatus)
        failed == [type |-> "ReconcileFailed", status |-> "True",
                   reason |-> Some("StoreError"), message |-> None]
        conditions == upsert_condition(
                         upsert_condition(UnwrapOr(base.conditions, <<>>),
                                          ready_condition(ready)), failed)
    IN  [observed_message |-> Some(o.spec.message), ready_replicas |-> Some(ready),
         conditions |-> Some(conditions)]

ComputeStatus(o, ready) ==
    LET base == UnwrapOr(o.status, DefaultStatus)
        s1 == IF base.observed_message # Some(o.spec.message)
              THEN [base EXCEPT !.observed_message = Some(o.spec.message)]
              ELSE base
        s2 == IF s1.ready_replicas # Some(ready)
              THEN [s1 EXCEPT !.ready_replicas = Some(ready)]
              ELSE s1
        conditions == upsert_condition(UnwrapOr(s2.conditions, <<>>), ready_condition(ready))
    IN  [s2 EXCEPT !.conditions = Some(conditions)]

\* Faulty variant: only the echoed message is compared
StatusChangedMessageOnly(o, ns) ==
    ns.observed_message # UnwrapOr(o.status, DefaultStatus).observed_message

StatusChanged(o, ns) == ns # UnwrapOr(o.status, DefaultStatus)

\* A status stored by an earlier run: message "hi", no replica ready
StoredStatus ==
    [observed_message |-> Some("hi"), ready_replicas |-> Some(0),
     conditions |-> Some(<<ready_condition(0)>>)]

\* A condition of another type, kept in the list by an earlier writer
OtherCondition == [type |-> "Progressing", status |-> "True", reason |-> None, message |-> None]

\* Statuses a Resource can carry when a reconcile finds it: none, or one whose
\* condition list is unique by type
StatusPool ==
    {None, Some(StoredStatus),
     Some([StoredStatus EXCEPT !.conditions = Some(<<OtherCondition>>)]),
     Some([StoredStatus EXCEPT !.conditions = Some(<<ready_condition(1), OtherCondition>>)])}

\* Faulty variant: cleanup_children forgets the ConfigMap
AfterStepNoConfigMapDelete(step) ==
    CASE step = "finalizer" -> "configmap"
      [] step = "configmap" -> "deployment"
      [] step = "deployment" -> "service"
      [] step = "service" -> "ingress"
      [] step = "ingress" -> "status"
      [] step = "del_deployment" -> "del_service"
      [] step = "del_service" -> "unfinalizer"
      [] step = "del_configmap" -> "unfinalizer"

\* Faulty variant: the Service is applied before the Deployment
AfterStepServiceFirst(step) ==
    CASE step = "finalizer" -> "configmap"
      [] step = "configmap" -> "service"
      [] step = "service" -> "deployment"
      [] step = "deployment" -> "ingress"
      [] step = "ingress" -> "status"
      [] step = "del_deployment" -> "del_service"
      [] step = "del_service" -> "del_configmap"
      [] step = "del_configmap" -> "unfinalizer"

\* The order of the Active path's store calls
AfterStep(step) ==
    CASE step = "finalizer" -> "configmap"
      [] step = "configmap" -> "deployment"
      [] step = "deployment" -> "service"
      [] step = "service" -> "ingress"
      [] step = "ingress" -> "status"
      [] step = "del_deployment" -> "del_service"
      [] step = "del_service" -> "del_configmap"
      [] step = "del_configmap" -> "unfinalizer"

Entry(op, kind, name, outcome) ==
    [op |-> op, kind |-> kind, name |-> name, outcome |-> outcome]

Min(a, b) == IF a < b THEN a ELSE b

\* The run returns Err(e): the runtime asks error_policy for the directive
FinishErr(path) ==
    /\ pc' = "done"
    /\ last' = Some([path |-> path, result |-> "err", action |-> error_policy(obj, "err")])
    /\ fails' = Min(fails + 1, MaxFails)

\* The run returns Ok(action)
FinishOk(path, action) ==
    /\ pc' = "done"
    /\ last' = Some([path |-> path, result |-> "ok", action |-> action])
    /\ fails' = 0

Continue(next) ==
    /\ pc' = next
    /\ UNCHANGED <<last, fails>>

\* Faulty variant: a missing owner reference is returned as an error
PanicAsError == FinishErr("active")

\* .expect("owner ref") on None: the reconcile unwinds, nothing is returned
Panic ==
    /\ pc' = "panicked"
    /\ UNCHANGED <<last, fails>>

----
(* State *)

NoPure == [fn |-> "none"]

\* A reconcile that has not been entered
NoRun == [pc |-> "idle", obj |-> NoObj, deploy_obj |-> None, new_status |-> None,
          writes |-> <<>>, last |-> None, overlapped |-> FALSE]

Init ==
    /\ \E s \in SpecPool, f \in {<<>>, <<OtherFinalizer>>} :
          res = [exists |-> TRUE, deleting |-> FALSE, name |-> Name, uid |-> Some(1),
                 finalizers |-> f, spec |-> s, status |-> None]
    /\ kids = [k \in Kinds |-> None]
    /\ deployReady = None
    /\ cache = None
    /\ pc = "idle"
    /\ obj = NoObj
    /\ deploy_obj = None
    /\ new_status = None
    /\ writes = <<>>
    /\ last = None
    /\ fails = 0
    /\ edits = 0
    /\ hist = [applied |-> FALSE, finalized |-> FALSE]
    /\ other = NoRun
    /\ pure = NoPure

----
(* The runtime: the watch, and the start of a reconcile *)

\* The watch delivers the Resource as the store now holds it (or its removal)
Watch ==
    /\ cache # (IF res.exists THEN Some(View(res)) ELSE None)
    /\ cache' = (IF res.exists THEN Some(View(res)) ELSE None)
    /\ UNCHANGED <<res, kids, deployReady, pc, obj, deploy_obj, new_status, writes,
                   last, fails, edits, hist, pure, other>>

\* reconcile(obj, ctx) is entered with the cached instance; at most one run
\* per identity is in flight
ReconcileStart ==
    /\ pc \in {"idle", "done"}
    /\ cache # None
    /\ obj' = Unwrap(cache)
    /\ pc' = IF Unwrap(cache).deleting THEN "del_deployment" ELSE "finalizer"
    /\ deploy_obj' = None
    /\ new_status' = None
    /\ writes' = <<>>
    /\ last' = None
    /\ UNCHANGED <<res, kids, deployReady, cache, fails, edits, hist, pure, other>>

----
(* The Active path *)

\* ensure_finalizer(present = true).await?
EnsureFinalizerPresent ==
    /\ pc = "finalizer"
    /\ LET fins == FinalizerPatch(TRUE) IN
       \E outcome \in PatchOutcomes(FinalizersPatchAccepted(res, fins)) :
          /\ writes' = Append(writes, Entry("patch", "RustOperator", obj.name, outcome))
          /\ res' = IF outcome = "ok" THEN PatchFinalizers(res, fins) ELSE res
          /\ IF Propagates("patch", outcome)
             THEN FinishErr("active")
             ELSE IF controller_owner_ref(obj) = None
                  THEN Panic
                  ELSE Continue(AfterStep("finalizer"))
    /\ UNCHANGED <<kids, deployReady, cache, obj, deploy_obj, new_status, edits, hist, pure, other>>

Owner(o) == Unwrap(controller_owner_ref(o))

\* cm_api.patch(name, apply.force, desired_configmap(..)).await?
ApplyConfigMap ==
    /\ pc = "configmap"
    /\ LET cm == desired_configmap(obj.name, labels(obj.name), obj.spec.html, Owner(obj)) IN
       \E outcome \in ApplyOutcomes :
          /\ writes' = Append(writes, Entry("apply", "ConfigMap", obj.name, outcome))
          /\ kids' = IF outcome = "ok" THEN [kids EXCEPT !["ConfigMap"] = Some(cm)] ELSE kids
          /\ hist' = IF outcome = "ok" THEN [hist EXCEPT !.applied = TRUE] ELSE hist
          /\ IF Propagates("apply", outcome)
             THEN FinishErr("active")
             ELSE Continue(AfterStep("configmap"))
    /\ UNCHANGED <<res, deployReady, cache, obj, deploy_obj, new_status, edits, pure, other>>

\* deploy_obj = deploy_api.patch(name, apply.force, desired_deployment(..)).await?
ApplyDeployment ==
    /\ pc = "deployment"
    /\ LET d == desired_deployment(obj.name, labels(obj.name), obj.spec.replicas,
                                   Owner(obj), obj.spec) IN
       \E outcome \in ApplyOutcomes :
          /\ writes' = Append(writes, Entry("apply", "Deployment", obj.name, outcome))
          /\ kids' = IF outcome = "ok" THEN [kids EXCEPT !["Deployment"] = Some(d)] ELSE kids
          /\ hist' = IF outcome = "ok" THEN [hist EXCEPT !.applied = TRUE] ELSE hist
          /\ deploy_obj' = IF outcome = "ok"
                           THEN Some([manifest |-> d, ready_replicas |-> deployReady])
                           ELSE deploy_obj
          /\ IF Propagates("apply", outcome)
             THEN FinishErr("active")
             ELSE Continue(AfterStep("deployment"))
    /\ UNCHANGED <<res, deployReady, cache, obj, new_status, edits, pure, other>>

\* svc_api.patch(svc_name, apply.force, desired_service(..)).await?
ApplyService ==
    /\ pc = "service"
    /\ LET svc_name == obj.name \o "-service"
           svc == desired_service(obj.name, labels(obj.name), obj.spec.service_type, Owner(obj))
       IN
       \E outcome \in ApplyOutcomes :
          /\ writes' = Append(writes, Entry("apply", "Service", svc_name, outcome))
          /\ kids' = IF outcome = "ok" THEN [kids EXCEPT !["Service"] = Some(svc)] ELSE kids
          /\ hist' = IF outcome = "ok" THEN [hist EXCEPT !.applied = TRUE] ELSE hist
          /\ IF Propagates("apply", outcome)
             THEN FinishErr("active")
             ELSE Continue(AfterStep("service"))
    /\ UNCHANGED <<res, deployReady, cache, obj, deploy_obj, new_status, edits, pure, other>>

\* What follows the Ingress call without a further store call: the status is
\* computed, and the run ends at once when it equals the instance's status
AfterIngress ==
    LET ns == ComputeStatus(obj, ReadyOf(Unwrap(deploy_obj))) IN
    /\ new_status' = Some(ns)
    /\ IF StatusChanged(obj, ns)
       THEN Continue(AfterStep("ingress"))
       ELSE FinishOk("active", requeue(RequeueOk))

\* ing_api.patch(name, apply.force, desired_ingress(..)).await?
ApplyIngress ==
    /\ pc = "ingress"
    /\ IngressWanted(obj.spec)
    /\ LET ing == desired_ingress(obj.name, labels(obj.name), obj.name \o "-service",
                                  obj.spec.ingress_host, obj.spec.tls_secret_name, Owner(obj))
       IN
       \E outcome \in ApplyOutcomes :
          /\ writes' = Append(writes, Entry("apply", "Ingress", obj.name, outcome))
          /\ kids' = IF outcome = "ok" THEN [kids EXCEPT !["Ingress"] = Some(ing)] ELSE kids
          /\ hist' = IF outcome = "ok" THEN [hist EXCEPT !.applied = TRUE] ELSE hist
          /\ IF Propagates("apply", outcome)
             THEN FinishErr("active") /\ UNCHANGED new_status
             ELSE AfterIngress
    /\ UNCHANGED <<res, deployReady, cache, obj, deploy_obj, edits, pure, other>>

\* let _ = ing_api.delete(name).await.ok()
DeleteIngress ==
    /\ pc = "ingress"
    /\ ~IngressWanted(obj.spec)
    /\ \E outcome \in DeleteOutcomes("Ingress") :
          /\ writes' = Append(writes, Entry("delete", "Ingress", obj.name, outcome))
          /\ kids' = IF outcome = "ok" THEN [kids EXCEPT !["Ingress"] = None] ELSE kids
          /\ IF Propagates("delete", outcome)
             THEN FinishErr("active") /\ UNCHANGED new_status
             ELSE AfterIngress
    /\ UNCHANGED <<res, deployReady, cache, obj, deploy_obj, edits, hist, pure, other>>

\* api.patch_status(name, merge {"status": new_status}).await?
PatchStatus ==
    /\ pc = "status"
    /\ \E outcome \in PatchOutcomes(res.exists) :
          /\ writes' = Append(writes, Entry("patch_status", "RustOperator", obj.name, outcome))
          /\ res' = IF outcome = "ok"
                    THEN [res EXCEPT !.status = MergeStatus(res.status, Unwrap(new_status))]
                    ELSE res
          /\ IF Propagates("patch_status", outcome)
             THEN FinishErr("active")
             ELSE FinishOk("active", requeue(RequeueOk))
    /\ UNCHANGED <<kids, deployReady, cache, obj, deploy_obj, new_status, edits, hist, pure, other>>

----
(* The Terminating path *)

\* Faulty variant: cleanup_children applies the object again instead of
\* deleting it
CleanupApply(step, kind, name) ==
    /\ pc = step
    /\ \E outcome \in ApplyOutcomes :
          /\ writes' = Append(writes, Entry("apply", kind, name, outcome))
          /\ Continue(AfterStep(step))
    /\ UNCHANGED <<res, kids, deployReady, cache, obj, deploy_obj, new_status, edits, hist,
                   pure, other>>

\* One of cleanup_children's three deletes: let _ = api.delete(name).await
CleanupDelete(step, kind, name) ==
    /\ pc = step
    /\ \E outcome \in DeleteOutcomes(kind) :
          /\ writes' = Append(writes, Entry("delete", kind, name, outcome))
          /\ kids' = IF outcome = "ok" THEN [kids EXCEPT ![kind] = None] ELSE kids
          /\ deployReady' = IF outcome = "ok" /\ kind = "Deployment" THEN None ELSE deployReady
          /\ IF Propagates("delete", outcome)
             THEN FinishErr("terminating")
             ELSE Continue(AfterStep(step))
    /\ UNCHANGED <<res, cache, obj, deploy_obj, new_status, edits, hist, pure, other>>

CleanupDeployment == CleanupDelete("del_deployment", "Deployment", obj.name)

CleanupService == CleanupDelete("del_service", "Service", obj.name \o "-service")

CleanupConfigMap == CleanupDelete("del_configmap", "ConfigMap", obj.name)

\* ensure_finalizer(present = false).await?; return Ok(Action::await_change())
EnsureFinalizerAbsent ==
    /\ pc = "unfinalizer"
    /\ LET fins == FinalizerPatch(FALSE) IN
       \E outcome \in PatchOutcomes(FinalizersPatchAccepted(res, fins)) :
          /\ writes' = Append(writes, Entry("patch", "RustOperator", obj.name, outcome))
          /\ res' = IF outcome = "ok" THEN PatchFinalizers(res, fins) ELSE res
          /\ hist' = IF outcome = "ok" THEN [hist EXCEPT !.finalized = TRUE] ELSE hist
          /\ IF Propagates("patch", outcome)
             THEN FinishErr("terminating")
             ELSE FinishOk("terminating", await_change)
    /\ UNCHANGED <<kids, deployReady, cache, obj, deploy_obj, new_status, edits, pure, other>>

----
(* The other actors: the user, the workload controller, the store *)

\* The user rewrites the spec
UserEdit ==
    /\ res.exists
    /\ edits < MaxEdits
    /\ \E s \in SpecPool \ {res.spec} : res' = [res EXCEPT !.spec = s]
    /\ edits' = edits + 1
    /\ UNCHANGED <<kids, deployReady, cache, pc, obj, deploy_obj, new_status, writes,
                   last, fails, hist, pure, other>>

\* The user asks for deletion: the flag is set once, and the store removes
\* the object at once when no finalizer holds it
UserDelete ==
    /\ res.exists
    /\ ~res.deleting
    /\ res' = Settle([res EXCEPT !.deleting = TRUE])
    /\ UNCHANGED <<kids, deployReady, cache, pc, obj, deploy_obj, new_status, writes,
                   last, fails, edits, hist, pure, other>>

\* The workload controller reports the Deployment's ready replicas
WorkloadReady ==
    /\ kids["Deployment"] # None
    /\ \E n \in 0..Unwrap(kids["Deployment"]).replicas :
          /\ deployReady # Some(n)
          /\ deployReady' = Some(n)
    /\ UNCHANGED <<res, kids, cache, pc, obj, deploy_obj, new_status, writes,
                   last, fails, edits, hist, pure, other>>

\* The store's garbage collector removes a dependent object whose owner is gone
GarbageCollect ==
    /\ ~res.exists
    /\ \E k \in Kinds :
          /\ kids[k] # None
          /\ \E i \in 1..Len(Unwrap(kids[k]).owner_references) :
                Unwrap(kids[k]).owner_references[i].uid = Unwrap(res.uid)
          /\ kids' = [kids EXCEPT ![k] = None]
          /\ deployReady' = IF k = "Deployment" THEN None ELSE deployReady
    /\ UNCHANGED <<res, cache, pc, obj, deploy_obj, new_status, writes,
                   last, fails, edits, hist, pure, other>>

----
(* The controller and its environment *)

Next ==
    \/ Watch
    \/ ReconcileStart
    \/ EnsureFinalizerPresent
    \/ ApplyConfigMap
    \/ ApplyDeployment
    \/ ApplyService
    \/ ApplyIngress
    \/ DeleteIngress
    \/ PatchStatus
    \/ CleanupDeployment
    \/ CleanupService
    \/ CleanupConfigMap
    \/ EnsureFinalizerAbsent
    \/ UserEdit
    \/ UserDelete
    \/ WorkloadReady
    \/ GarbageCollect

Spec == Init /\ [][Next]_vars

\* A store call of the run in flight returns
RunStep ==
    \/ EnsureFinalizerPresent
    \/ ApplyConfigMap
    \/ ApplyDeployment
    \/ ApplyService
    \/ ApplyIngress
    \/ DeleteIngress
    \/ PatchStatus
    \/ CleanupDeployment
    \/ CleanupService
    \/ CleanupConfigMap
    \/ EnsureFinalizerAbsent

\* The finalizer-removal write is accepted
FinalizerRemoved == EnsureFinalizerAbsent /\ hist'.finalized

\* The watch delivers every change, a Resource in the store is reconciled again
\* and again (after 30, after 10, or on a change), every store call returns,
\* store errors are transient, and the garbage collector runs
Fairness ==
    /\ WF_vars(Watch)
    /\ WF_vars(ReconcileStart)
    /\ WF_vars(RunStep)
    /\ SF_vars(FinalizerRemoved)
    /\ WF_vars(GarbageCollect)

\* The teardown is followed from a Resource created with an ingress host
FairInit == Init /\ res.spec = SpecB

FairSpec == FairInit /\ [][Next]_vars /\ Fairness

----
(* Re-running the Active path on a store left in a partial or drifted state *)

\* The dependent object of one kind that the Active path builds for an instance
Desired(kind, o) ==
    CASE kind = "ConfigMap" ->
            desired_configmap(o.name, labels(o.name), o.spec.html, Owner(o))
      [] kind = "Deployment" ->
            desired_deployment(o.name, labels(o.name), o.spec.replicas, Owner(o), o.spec)
      [] kind = "Service" ->
            desired_service(o.name, labels(o.name), o.spec.service_type, Owner(o))
      [] kind = "Ingress" ->
            desired_ingress(o.name, labels(o.name), o.name \o "-service",
                            o.spec.ingress_host, o.spec.tls_secret_name, Owner(o))

\* Each dependent object is absent, as built for the Resource's spec, or as
\* built for another spec (modified); the finalizer is on the Resource or not;
\* a status may have been stored; the watch has delivered the Resource
DriftInit ==
    /\ \E sp \in SpecPool, fins \in {<<>>, <<FINALIZER>>}, st \in StatusPool :
          res = [exists |-> TRUE, deleting |-> FALSE, name |-> Name, uid |-> Some(1),
                 finalizers |-> fins, spec |-> sp, status |-> st]
    /\ kids \in [Kinds -> {None} \cup
                    {Some(Desired(k, [View(res) EXCEPT !.spec = sp])) :
                        k \in Kinds, sp \in SpecPool}]
    /\ \A k \in Kinds : kids[k] # None => kids[k][1].kind = k
    /\ deployReady \in (IF kids["Deployment"] = None THEN {None} ELSE {None, Some(1)})
    /\ cache = Some(View(res))
    /\ pc = "idle"
    /\ obj = NoObj
    /\ deploy_obj = None
    /\ new_status = None
    /\ writes = <<>>
    /\ last = None
    /\ fails = 0
    /\ edits = 0
    /\ hist = [applied |-> FALSE, finalized |-> FALSE]
    /\ other = NoRun
    /\ pure = NoPure

\* Reconciles of a Resource that nobody edits or deletes
DriftNext ==
    \/ Watch
    \/ ReconcileStart
    \/ EnsureFinalizerPresent
    \/ ApplyConfigMap
    \/ ApplyDeployment
    \/ ApplyService
    \/ ApplyIngress
    \/ DeleteIngress
    \/ PatchStatus

DriftSpec == DriftInit /\ [][DriftNext]_vars

----
(* Two reconciles of the same identity in flight at once *)

InFlight(p) == p \notin {"idle", "done"}

\* The runtime suspends the reconcile that was taking steps, at a store call
\* or before it is entered or after it returned, and lets the other one run
Resume ==
    /\ pc # "idle"
    /\ pc' = other.pc
    /\ obj' = other.obj
    /\ deploy_obj' = other.deploy_obj
    /\ new_status' = other.new_status
    /\ writes' = other.writes
    /\ last' = other.last
    /\ other' = [pc |-> pc, obj |-> obj, deploy_obj |-> deploy_obj,
                 new_status |-> new_status, writes |-> writes, last |-> last,
                 overlapped |-> other.overlapped \/ (InFlight(pc) /\ InFlight(other.pc))]
    /\ UNCHANGED <<res, kids, deployReady, cache, fails, edits, hist, pure>>

\* Two Active reconciles of a Resource that nobody else touches
TwoNext ==
    \/ Watch
    \/ ReconcileStart
    \/ EnsureFinalizerPresent
    \/ ApplyConfigMap
    \/ ApplyDeployment
    \/ ApplyService
    \/ ApplyIngress
    \/ DeleteIngress
    \/ PatchStatus
    \/ Resume

TwoSpec == Init /\ [][TwoNext]_vars

----
(* Resources for which an owner reference can or cannot be computed *)

\* The Resource is delivered with or without a uid
OwnerInit ==
    /\ \E s \in SpecPool, f \in {<<>>, <<FINALIZER>>, <<OtherFinalizer>>},
          u \in {None, Some(1)} :
          res = [exists |-> TRUE, deleting |-> FALSE, name |-> Name, uid |-> u,
                 finalizers |-> f, spec |-> s, status |-> None]
    /\ kids = [k \in Kinds |-> None]
    /\ deployReady = None
    /\ cache = None
    /\ pc = "idle"
    /\ obj = NoObj
    /\ deploy_obj = None
    /\ new_status = None
    /\ writes = <<>>
    /\ last = None
    /\ fails = 0
    /\ edits = 0
    /\ hist = [applied |-> FALSE, finalized |-> FALSE]
    /\ other = NoRun
    /\ pure = NoPure

\* Active reconciles of a Resource that the user may edit
OwnerNext ==
    \/ Watch
    \/ ReconcileStart
    \/ EnsureFinalizerPresent
    \/ ApplyConfigMap
    \/ ApplyDeployment
    \/ ApplyService
    \/ ApplyIngress
    \/ DeleteIngress
    \/ PatchStatus
    \/ UserEdit

OwnerSpec == OwnerInit /\ [][OwnerNext]_vars

TypeOK ==
    /\ pc \in {"idle", "done", "finalizer", "configmap", "deployment", "service", "ingress",
               "status", "del_deployment", "del_service", "del_configmap", "unfinalizer",
               "panicked"}
    /\ fails \in 0..MaxFails
    /\ edits \in 0..MaxEdits

----
(* The pure functions, called on inputs drawn from bounded sets *)

CondPool ==
    {[type |-> ty, status |-> st, reason |-> None, message |-> None] :
        ty \in {"Ready", "Progressing"}, st \in {"True", "False"}}

RECURSIVE SeqsUpTo(_, _)
SeqsUpTo(S, n) ==
    IF n = 0 THEN {<<>>}
    ELSE LET shorter == SeqsUpTo(S, n - 1)
         IN  shorter \cup {Append(s, x) : s \in shorter, x \in S}

HtmlPool == {<<>>, <<" ">>, <<"h">>, <<"\"">>}

PureSpecs ==
    [message : {"hi", "yo"}, html : HtmlPool, replicas : {1, 2},
     service_type : {"ClusterIP", "NodePort"},
     ingress_host : {<<>>, <<"e">>}, tls_secret_name : {<<>>, <<"t">>}]

\* Secret names and pages with surrounding whitespace
TlsPool == {<<>>, <<" ">>, <<"t">>, <<" ", "t">>}
PagePool == HtmlPool \cup {<<" ", "h">>, <<"h", " ">>, <<"\t", " ">>}
HostPool == {<<"e">>, <<" ", "e">>}

\* Finalizer lists a Resource can carry: the controller's token, another
\* actor's, both in either order, or none
FinalizerLists ==
    {<<>>, <<FINALIZER>>, <<OtherFinalizer>>, <<FINALIZER, OtherFinalizer>>,
     <<OtherFinalizer, FINALIZER>>}

PureOwner == [kind |-> "RustOperator", name |-> Name, uid |-> 1, controller |-> TRUE]

PureInit ==
    /\ res = [exists |-> TRUE, deleting |-> FALSE, name |-> Name, uid |-> Some(1),
              finalizers |-> <<>>, spec |-> SpecA, status |-> None]
    /\ kids = [k \in Kinds |-> None]
    /\ deployReady = None
    /\ cache = None
    /\ pc = "idle"
    /\ obj = NoObj
    /\ deploy_obj = None
    /\ new_status = None
    /\ writes = <<>>
    /\ last = None
    /\ fails = 0
    /\ edits = 0
    /\ hist = [applied |-> FALSE, finalized |-> FALSE]
    /\ other = NoRun
    /\ \/ \E l \in SeqsUpTo(CondPool, MaxConds), c \in CondPool :
             pure = [fn |-> "upsert_condition", list |-> l, newc |-> c, out |-> None]
       \/ \E a \in PureSpecs, b \in PureSpecs :
             pure = [fn |-> "rollout_fingerprint", a |-> a, b |-> b, out |-> None]
       \/ \E s \in PureSpecs, h \in HostPool, t \in TlsPool :
             pure = [fn |-> "desired_ingress",
                     spec |-> [s EXCEPT !.ingress_host = h, !.tls_secret_name = t],
                     out |-> None]
       \/ \E h \in PagePool :
             pure = [fn |-> "desired_configmap", html |-> h, out |-> None]
       \/ \E present \in BOOLEAN, deleting \in BOOLEAN, fins \in FinalizerLists,
             sp \in SpecPool, st \in {None, Some(StoredStatus)} :
             /\ ~(deleting /\ fins = <<>>)
             /\ pure = [fn |-> "ensure_finalizer", present |-> present,
                        r |-> [exists |-> TRUE, deleting |-> deleting, name |-> Name,
                               uid |-> Some(1), finalizers |-> fins, spec |-> sp,
                               status |-> st],
                        out |-> None]

\* upsert_condition(&mut list, newc)
CallUpsert ==
    /\ pure.fn = "upsert_condition"
    /\ pure.out = None
    /\ pure' = [pure EXCEPT !.out = Some(upsert_condition(pure.list, pure.newc))]
    /\ UNCHANGED ctlVars

RolloutHash(d) == d.template_annotations[1].value

\* The pod-template annotation of the Deployments built for two specs
CallFingerprint ==
    /\ pure.fn = "rollout_fingerprint"
    /\ pure.out = None
    /\ pure' = [pure EXCEPT !.out = Some(
          <<RolloutHash(desired_deployment(Name, labels(Name), pure.a.replicas,
                                           PureOwner, pure.a)),
            RolloutHash(desired_deployment(Name, labels(Name), pure.b.replicas,
                                           PureOwner, pure.b))>>)]
    /\ UNCHANGED ctlVars

\* The Ingress built for a spec, with the rollout hash of the Deployment built
\* for it and of the Deployment built for the same spec without a TLS secret
CallIngress ==
    /\ pure.fn = "desired_ingress"
    /\ pure.out = None
    /\ LET s == pure.spec
           bare == [s EXCEPT !.tls_secret_name = <<>>]
       IN  pure' = [pure EXCEPT !.out = Some(
              [ingress |-> desired_ingress(Name, labels(Name), Name \o "-service",
                                           s.ingress_host, s.tls_secret_name, PureOwner),
               hash |-> RolloutHash(desired_deployment(Name, labels(Name), s.replicas,
                                                       PureOwner, s)),
               hash_bare |-> RolloutHash(desired_deployment(Name, labels(Name),
                                                            bare.replicas, PureOwner, bare))])]
    /\ UNCHANGED ctlVars

\* desired_configmap(&name, &labels, &obj.spec.html, owner)
CallConfigMap ==
    /\ pure.fn = "desired_configmap"
    /\ pure.out = None
    /\ pure' = [pure EXCEPT !.out =
                   Some(desired_configmap(Name, labels(Name), pure.html, PureOwner))]
    /\ UNCHANGED ctlVars

\* ensure_finalizer(name, ns, ctx, present) on a stored Resource
CallEnsureFinalizer ==
    /\ pure.fn = "ensure_finalizer"
    /\ pure.out = None
    /\ LET fins == FinalizerPatch(pure.present) IN
       \E outcome \in PatchOutcomes(FinalizersPatchAccepted(pure.r, fins)) :
          pure' = [pure EXCEPT !.out = Some(
                     [outcome |-> outcome,
                      after |-> IF outcome = "ok" THEN PatchFinalizers(pure.r, fins)
                                ELSE pure.r])]
    /\ UNCHANGED ctlVars

PureNext ==
    \/ CallEnsureFinalizer
    \/ CallUpsert
    \/ CallFingerprint
    \/ CallIngress
    \/ CallConfigMap

PureSpec == PureInit /\ [][PureNext]_vars

----
(* Properties *)

ActivePcs == {"finalizer", "configmap", "deployment", "service", "ingress", "status"}
TerminatingPcs == {"del_deployment", "del_service", "del_configmap", "unfinalizer"}

Done(path) == pc = "done" /\ last # None /\ Unwrap(last).path = path
DoneOk(path) == Done(path) /\ Unwrap(last).result = "ok"
DoneErr(path) == Done(path) /\ Unwrap(last).result = "err"

InActiveRun == pc \in ActivePcs \/ Done("active")
InTerminatingRun == pc \in TerminatingPcs \/ Done("terminating")

Call(e) == <<e.op, e.kind, e.name>>

\* C1: in an Active reconcile the store writes are issued in the order
\* finalizer write, ConfigMap apply, Deployment apply, Service apply, Ingress
\* apply or delete, status write; a failed finalizer write or apply is the
\* last write of its run, and the run has then ended in error.
C1_ActiveWriteOrder ==
    InActiveRun =>
        /\ Len(writes) <= 6
        /\ \A i \in 1..Len(writes) :
              /\ i = 1 => Call(writes[i]) = <<"patch", "RustOperator", "web">>
              /\ i = 2 => Call(writes[i]) = <<"apply", "ConfigMap", "web">>
              /\ i = 3 => Call(writes[i]) = <<"apply", "Deployment", "web">>
              /\ i = 4 => Call(writes[i]) = <<"apply", "Service", "web-service">>
              /\ i = 5 => Call(writes[i]) \in {<<"apply", "Ingress", "web">>,
                                               <<"delete", "Ingress", "web">>}
              /\ i = 6 => Call(writes[i]) = <<"patch_status", "RustOperator", "web">>
              /\ (writes[i].outcome # "ok" /\ writes[i].op \in {"patch", "apply"}) =>
                    i = Len(writes) /\ DoneErr("active")

\* C1 witness: a run whose Service apply failed has ended with four writes
C1_Witness ==
    /\ DoneErr("active")
    /\ Len(writes) = 4
    /\ writes[4].outcome = "err"
    /\ writes[3].outcome = "ok"

\* C2: whenever an Active reconcile is past its finalizer write, so at every
\* apply of a dependent object, the Resource is in the store and carries the
\* controller's finalizer; and a Resource for which a dependent object was
\* applied is removed from the store only after a Terminating reconcile has
\* removed the finalizer.
C2_FinalizerBeforeWork ==
    /\ pc \in {"configmap", "deployment", "service", "ingress", "status"} =>
          res.exists /\ FINALIZER \in ToSet(res.finalizers)
    /\ (hist.applied /\ ~res.exists) => hist.finalized

\* C2 witness: a Resource with applied dependents is gone, after a
\* Terminating reconcile removed the finalizer
C2_Witness ==
    /\ hist.applied
    /\ ~res.exists
    /\ hist.finalized

\* C3 as stated: every Terminating reconcile issues the three deletes, removes
\* the finalizer and returns "wait for next change", never a timed
\* re-invocation.
C3_AlwaysAwaitChange ==
    Done("terminating") =>
        /\ Unwrap(last).action.requeue_after = None
        /\ FINALIZER \notin ToSet(res.finalizers)

\* C3 amended: a Terminating reconcile issues the delete of the Deployment
\* (name), of the Service (name-service) and of the ConfigMap (name), goes on
\* whatever their outcomes, then issues the finalizer-removal write; when that
\* write succeeds the token is off the Resource and the run returns "wait for
\* next change"; when it fails the run fails and is retried after 10.
C3_TerminatingRun ==
    Done("terminating") =>
        /\ Len(writes) = 4
        /\ Call(writes[1]) = <<"delete", "Deployment", "web">>
        /\ Call(writes[2]) = <<"delete", "Service", "web-service">>
        /\ Call(writes[3]) = <<"delete", "ConfigMap", "web">>
        /\ Call(writes[4]) = <<"patch", "RustOperator", "web">>
        /\ writes[4].outcome = "ok" =>
              /\ Unwrap(last).result = "ok"
              /\ Unwrap(last).action.requeue_after = None
              /\ FINALIZER \notin ToSet(res.finalizers)
        /\ writes[4].outcome # "ok" =>
              /\ Unwrap(last).result = "err"
              /\ Unwrap(last).action.requeue_after = <<10>>

\* C3 witness: a Terminating run whose deletes failed or found nothing still
\* removed the finalizer and returned "wait for next change"
C3_Witness ==
    /\ DoneOk("terminating")
    /\ writes[1].outcome = "err"
    /\ writes[2].outcome = "not_found"
    /\ writes[3].outcome = "ok"

\* C4: once deletion of the Resource is requested, then under fair scheduling
\* of the reconciles and of the garbage collector, and with store errors
\* transient, eventually the Resource is gone and no ConfigMap, Deployment,
\* Service or Ingress of it is in the store.
C4_CleanTeardown ==
    res.deleting ~> (~res.exists /\ \A k \in Kinds : kids[k] = None)

\* C4 witness: everything is gone although the Terminating run's deletes of
\* the Deployment and of the ConfigMap failed and it issued no Ingress delete
C4_Witness ==
    /\ hist.applied
    /\ ~res.exists
    /\ \A k \in Kinds : kids[k] = None
    /\ DoneOk("terminating")
    /\ writes[1].outcome = "err"
    /\ writes[3].outcome = "err"

StatusWritten == \E i \in 1..Len(writes) : writes[i].op = "patch_status"

\* C5 as stated: after every successful Active reconcile the Ingress exists in
\* the store if and only if the instance's ingressHost is non-empty after
\* trimming whitespace.
C5_IngressIffHost ==
    DoneOk("active") =>
        (kids["Ingress"] # None <=> Trim(obj.spec.ingress_host) # <<>>)

\* C6: in an Active reconcile that has computed its status, the status write
\* is issued (or about to be) if and only if the computed status differs from
\* the status of the instance the run was given in observedMessage,
\* readyReplicas or the condition list.
C6_StatusWriteIffChanged ==
    (InActiveRun /\ new_status # None) =>
        LET old == IF obj.status = None THEN DefaultStatus ELSE obj.status[1]
            new == new_status[1]
            differs == \/ new.observed_message # old.observed_message
                       \/ new.ready_replicas # old.ready_replicas
                       \/ new.conditions # old.conditions
        IN  (StatusWritten \/ pc = "status") <=> differs

\* C6 witness: a successful Active run whose computed status equalled a
\* status already stored wrote no status
C6_Witness ==
    /\ DoneOk("active")
    /\ obj.status # None
    /\ new_status = obj.status
    /\ ~StatusWritten

\* C7: the status an Active reconcile computes has observedMessage equal to
\* spec.message, readyReplicas equal to the count read back from the applied
\* Deployment (0 when none is reported), and a "Ready" condition that is
\* "True"/"PodsAvailable" exactly when that count is above 0 and
\* "False"/"Scaling" otherwise.
C7_ComputedStatus ==
    (InActiveRun /\ new_status # None) =>
        LET new == new_status[1]
            seen == deploy_obj[1].ready_replicas
            ready == IF seen = None THEN 0 ELSE seen[1]
            conds == new.conditions[1]
            readys == {i \in 1..Len(conds) : conds[i].type = "Ready"}
        IN  /\ new.observed_message = <<obj.spec.message>>
            /\ new.ready_replicas = <<ready>>
            /\ readys # {}
            /\ \A i \in readys :
                  /\ ready > 0 => conds[i].status = "True" /\ conds[i].reason = <<"PodsAvailable">>
                  /\ ready <= 0 => conds[i].status = "False" /\ conds[i].reason = <<"Scaling">>
                  /\ conds[i].message = << <<"ready_replicas=", ready>> >>

\* C7 witness: a successful run that saw no ready count on the Deployment
\* reported readyReplicas 0 and "Scaling"
C7_Witness ==
    /\ DoneOk("active")
    /\ new_status # None
    /\ deploy_obj[1].ready_replicas = None
    /\ new_status[1].ready_replicas = <<0>>

\* C10: an Active reconcile that succeeds asks to be run again after 30; a
\* reconcile that fails, in the Active path or at the finalizer removal of the
\* Terminating path, is retried after 10, however many runs failed before it.
C10_Directives ==
    pc = "done" =>
        /\ DoneOk("active") => last[1].action.requeue_after = <<30>>
        /\ last[1].result = "err" => last[1].action.requeue_after = <<10>>
        /\ DoneErr("terminating") => writes[Len(writes)].op = "patch"

\* C10 witness: a Terminating run failed at the finalizer removal after at
\* least two failed runs in a row and is retried after 10
C10_Witness ==
    /\ DoneErr("terminating")
    /\ fails >= 2
    /\ last[1].action.requeue_after = <<10>>

\* C8: upsert_condition appends the new condition when no entry has its type
\* (length + 1, the old entries as they were); when an entry has its type the
\* length is unchanged, one entry of that type now is the new condition at
\* the same position, and every other entry is where and what it was.
C8_Upsert ==
    (pure.fn = "upsert_condition" /\ pure.out # None) =>
        LET old == pure.list
            c == pure.newc
            new == pure.out[1]
        IN  IF \A i \in 1..Len(old) : old[i].type # c.type
            THEN /\ Len(new) = Len(old) + 1
                 /\ \A i \in 1..Len(old) : new[i] = old[i]
                 /\ new[Len(new)] = c
            ELSE /\ Len(new) = Len(old)
                 /\ \E p \in 1..Len(old) :
                       /\ old[p].type = c.type
                       /\ new[p] = c
                       /\ \A i \in 1..Len(old) : i # p => new[i] = old[i]

\* C8 witness: a two-entry list whose second entry has the new condition's
\* type and a different status, replaced in place
C8_Witness ==
    /\ pure.fn = "upsert_condition"
    /\ pure.out # None
    /\ Len(pure.list) = 2
    /\ pure.list[1].type # pure.newc.type
    /\ pure.list[2].type = pure.newc.type
    /\ pure.list[2] # pure.newc
    /\ pure.out[1] = <<pure.list[1], pure.newc>>

\* C9: the rollout-hash annotations of the Deployments built for two specs
\* differ if and only if the specs' html fields differ (SHA-256 taken as
\* collision-free); specs that differ only in replicas, serviceType,
\* ingressHost, tlsSecretName or message get the same annotation.
C9_FingerprintIffHtml ==
    (pure.fn = "rollout_fingerprint" /\ pure.out # None) =>
        (pure.out[1][1] # pure.out[1][2] <=> pure.a.html # pure.b.html)

\* C9 witness: two specs that differ in every field but html got the same
\* rollout hash
C9_Witness ==
    /\ pure.fn = "rollout_fingerprint"
    /\ pure.out # None
    /\ pure.a.html = pure.b.html
    /\ pure.a.replicas # pure.b.replicas
    /\ pure.a.service_type # pure.b.service_type
    /\ pure.a.ingress_host # pure.b.ingress_host
    /\ pure.a.tls_secret_name # pure.b.tls_secret_name
    /\ pure.a.message # pure.b.message
    /\ pure.out[1][1] = pure.out[1][2]

\* C13: the Ingress built for a spec has a TLS block exactly when
\* tlsSecretName is not the empty string; the block then names that secret
\* and the ingress host as given; and the rollout hash of the Deployment is
\* the same with the tlsSecretName as without it.
C13_TlsIffNonEmpty ==
    (pure.fn = "desired_ingress" /\ pure.out # None) =>
        LET ing == pure.out[1].ingress
        IN  /\ ing.tls # None <=> pure.spec.tls_secret_name # <<>>
            /\ ing.tls # None =>
                  /\ ing.tls[1].secret_name = pure.spec.tls_secret_name
                  /\ ing.tls[1].hosts = <<pure.spec.ingress_host>>
            /\ pure.out[1].hash = pure.out[1].hash_bare

\* C13 witness: an Ingress built with secret name "t" has a TLS block for
\* "t" and the host, and the rollout hash did not move
C13_Witness ==
    /\ pure.fn = "desired_ingress"
    /\ pure.out # None
    /\ pure.spec.tls_secret_name = <<"t">>
    /\ pure.out[1].ingress.tls = <<[hosts |-> <<pure.spec.ingress_host>>,
                                    secret_name |-> <<"t">>]>>
    /\ pure.out[1].hash = pure.out[1].hash_bare

\* C15: the ConfigMap built for a spec has the single data key "index.html";
\* its value is spec.html as given, untrimmed, when html is non-empty after
\* trimming whitespace, and the placeholder page otherwise.
C15_ConfigMapContent ==
    (pure.fn = "desired_configmap" /\ pure.out # None) =>
        LET data == pure.out[1].data
        IN  /\ DOMAIN data = {"index.html"}
            /\ Trim(pure.html) # <<>> => data["index.html"] = pure.html
            /\ Trim(pure.html) = <<>> => data["index.html"] = PLACEHOLDER

\* C15 witness: a page with a leading blank is stored with that blank
C15_Witness ==
    /\ pure.fn = "desired_configmap"
    /\ pure.out # None
    /\ pure.html = <<" ", "h">>
    /\ pure.out[1].data["index.html"] = <<" ", "h">>

\* C19 as stated: the Ingress built for a spec has a TLS block if and only if
\* tlsSecretName is non-empty after trimming whitespace, and the block names
\* that secret and the given host.
C19_TlsIffNonBlank ==
    (pure.fn = "desired_ingress" /\ pure.out # None) =>
        LET ing == pure.out[1].ingress
        IN  /\ ing.tls # None <=> Trim(pure.spec.tls_secret_name) # <<>>
            /\ ing.tls # None =>
                  /\ ing.tls[1].secret_name = pure.spec.tls_secret_name
                  /\ ing.tls[1].hosts = <<pure.spec.ingress_host>>

\* C16: the stored status of a Resource changes only in the step in which a
\* status write succeeds, and that step ends its run in success: no run that
\* fails has written status; and every condition the stored status carries
\* is the readiness condition.
C16_FailuresNotInStatus ==
    /\ [][(res.exists /\ res'.exists /\ res'.status # res.status) =>
             /\ pc = "status"
             /\ pc' = "done"
             /\ last'[1].result = "ok"
             /\ writes'[Len(writes')].op = "patch_status"
             /\ writes'[Len(writes')].outcome = "ok"]_vars
    /\ [](DoneErr("active") /\ StatusWritten =>
             /\ writes[Len(writes)].op = "patch_status"
             /\ writes[Len(writes)].outcome = "err")
    /\ [](res.status # None /\ res.status[1].conditions # None =>
             \A i \in 1..Len(res.status[1].conditions[1]) :
                LET c == res.status[1].conditions[1][i]
                IN  /\ c.type = "Ready"
                    /\ c.reason \in {<<"PodsAvailable">>, <<"Scaling">>})

\* C16 witness: a run failed at its status write after an earlier run had
\* stored a status, and the stored status is still what that earlier run
\* wrote and not what the failed run computed
C16_Witness ==
    /\ DoneErr("active")
    /\ StatusWritten
    /\ res.exists
    /\ res.status # None
    /\ res.status = obj.status
    /\ res.status # new_status

IssuedIngressDelete ==
    \E i \in 1..Len(writes) : writes[i].op = "delete" /\ writes[i].kind = "Ingress"

\* C20 as stated: an Active reconcile with a blank ingressHost that issued
\* the Ingress delete returns success with the re-invocation after 30.
C20_AlwaysSuccess ==
    (Done("active") /\ IssuedIngressDelete) =>
        /\ last[1].result = "ok"
        /\ last[1].action.requeue_after = <<30>>

\* C20 amended: in an Active reconcile with a blank ingressHost, whatever the
\* Ingress delete returns (ok, not-found, another store error), the run goes
\* on to compute the status; it ends in error, retried after 10, only when
\* the status write that follows fails, and otherwise returns success with
\* the re-invocation after 30.
C20_DeleteSwallowed ==
    (InActiveRun /\ IssuedIngressDelete) =>
        /\ Trim(obj.spec.ingress_host) = <<>>
        /\ new_status # None
        /\ pc \in {"status", "done"}
        /\ pc = "done" =>
              IF writes[Len(writes)].op = "patch_status" /\ writes[Len(writes)].outcome # "ok"
              THEN last[1].result = "err" /\ last[1].action.requeue_after = <<10>>
              ELSE last[1].result = "ok" /\ last[1].action.requeue_after = <<30>>

\* C20 witness: the Ingress delete failed with a store error and the run
\* still wrote the status and returned success with 30
C20_Witness ==
    /\ DoneOk("active")
    /\ Len(writes) = 6
    /\ Call(writes[5]) = <<"delete", "Ingress", "web">>
    /\ writes[5].outcome = "err"
    /\ writes[6].outcome = "ok"
    /\ last[1].action.requeue_after = <<30>>

\* C14: every dependent object in the store carries exactly the labels
\* app.kubernetes.io/name = "webapp" and app.kubernetes.io/instance = the
\* Resource's name, and exactly one owner reference, which points to the
\* Resource (kind, name, uid) as its controller; the ConfigMap, the Deployment
\* and the Ingress have the Resource's name and the Service has that name
\* followed by "-service".
C14_LabelsOwnerNames ==
    \A k \in Kinds :
        kids[k] # None =>
            LET o == kids[k][1]
            IN  /\ DOMAIN o.labels = {"app.kubernetes.io/name", "app.kubernetes.io/instance"}
                /\ o.labels["app.kubernetes.io/name"] = "webapp"
                /\ o.labels["app.kubernetes.io/instance"] = res.name
                /\ Len(o.owner_references) = 1
                /\ o.owner_references[1].kind = "RustOperator"
                /\ o.owner_references[1].name = res.name
                /\ <<o.owner_references[1].uid>> = res.uid
                /\ o.kind = k
                /\ o.name = IF k = "Service" THEN res.name \o "-service" ELSE res.name

\* C14 witness: a successful Active run has applied all four dependent
\* objects, the Service under the name "web-service"
C14_Witness ==
    /\ DoneOk("active")
    /\ \A k \in Kinds : kids[k] # None
    /\ kids["Service"][1].name = "web-service"
    /\ kids["Ingress"][1].name = "web"

\* C17 as stated: after the Active path's finalizer step the controller's
\* token is on the Resource, and when the token was there before, alone or
\* next to other actors' tokens, the finalizer list is what it was.
C17_FinalizerStepNoOp ==
    (pure.fn = "ensure_finalizer" /\ pure.present /\ pure.out # None
        /\ pure.out[1].outcome = "ok") =>
        /\ FINALIZER \in ToSet(pure.out[1].after.finalizers)
        /\ FINALIZER \in ToSet(pure.r.finalizers) =>
              pure.out[1].after.finalizers = pure.r.finalizers

\* C18 as stated: after the Terminating path's finalizer step the
\* controller's token is off the Resource, every other token of the list is
\* still on it, and its spec and status are what they were.
C18_OnlyOwnTokenRemoved ==
    (pure.fn = "ensure_finalizer" /\ ~pure.present /\ pure.out # None
        /\ pure.out[1].outcome = "ok") =>
        LET before == pure.r
            after == pure.out[1].after
        IN  /\ FINALIZER \notin ToSet(after.finalizers)
            /\ \A t \in ToSet(before.finalizers) \ {FINALIZER} :
                  t \in ToSet(after.finalizers)
            /\ after.exists => after.spec = before.spec /\ after.status = before.status

\* What a successful Active reconcile of an instance leaves in a clean store
CleanKids(o) ==
    [k \in Kinds |-> IF k = "Ingress" /\ ~IngressWanted(o.spec)
                     THEN None
                     ELSE Some(Desired(k, o))]

\* C11 as stated: from any partial or drifted state, a successful Active
\* reconcile ends with the dependent objects that a successful reconcile of
\* the same spec leaves in a clean store.
C11_RerunSafe ==
    DoneOk("active") => kids = CleanKids(obj)

\* What one successful Active reconcile makes of a Resource that had no status
SingleRun(r) ==
    [r EXCEPT !.finalizers = <<FINALIZER>>,
              !.status = Some(ComputeStatus([View(r) EXCEPT !.status = None],
                                            UnwrapOr(deployReady, 0)))]

BothDoneOk ==
    /\ DoneOk("active")
    /\ other.pc = "done"
    /\ other.last # None
    /\ other.last[1].path = "active"
    /\ other.last[1].result = "ok"

\* C12: when two Active reconciles of the same Resource have run, their store
\* calls interleaved in any way and nobody else changing the store, and both
\* have returned success, the Resource and its dependent objects are what a
\* single successful reconcile leaves.
C12_Converge ==
    BothDoneOk => (res = SingleRun(res) /\ kids = CleanKids(View(res)))

\* C12 witness: both reconciles returned success after having been in flight
\* at the same time, each having issued all its writes down to the status
C12_Witness ==
    /\ BothDoneOk
    /\ other.overlapped
    /\ Len(writes) = 6
    /\ Len(other.writes) = 6
    /\ kids["Ingress"] # None

\* C21: an Active reconcile of a Resource whose owner reference cannot be
\* computed, once its finalizer write has been accepted, is aborted: the
\* finalizer write is the only write it issued, no dependent object is in the
\* store, no status is stored, and no result or re-invocation directive was
\* produced (no error reached the Error Policy).
C21_AbortOnMissingOwner ==
    /\ (pc \in ActivePcs \cup {"done", "panicked"} /\ controller_owner_ref(obj) = None
          /\ Len(writes) >= 1 /\ writes[1].outcome = "ok") =>
            /\ pc = "panicked"
            /\ Len(writes) = 1
            /\ Call(writes[1]) = <<"patch", "RustOperator", "web">>
            /\ last = None
    /\ pc = "panicked" =>
            /\ controller_owner_ref(obj) = None
            /\ \A k \in Kinds : kids[k] = None
            /\ res.status = None
            /\ FINALIZER \in ToSet(res.finalizers)

\* C21 witness: the run of a Resource without uid was aborted after its
\* finalizer write put the token on the Resource
C21_Witness ==
    /\ pc = "panicked"
    /\ obj.uid = None
    /\ writes = <<Entry("patch", "RustOperator", "web", "ok")>>
    /\ res.finalizers = <<FINALIZER>>
    /\ last = None

AppliedOk(kind) ==
    \E i \in 1..Len(writes) :
        writes[i].op = "apply" /\ writes[i].kind = kind /\ writes[i].outcome = "ok"

\* C22: every dependent object an Active reconcile has applied is the object
\* built from the instance's name, uid and spec alone, the same whatever
\* status the instance carried; and when the run writes status, the status
\* it computed is built on the status the instance carried.
C22_WritesIgnoreStatus ==
    InActiveRun =>
        /\ \A k \in Kinds :
              (AppliedOk(k) /\ kids[k] # None) =>
                  kids[k] = Some(Desired(k, [obj EXCEPT !.status = None]))
        /\ new_status # None =>
              new_status = Some(ComputeStatus(obj, ReadyOf(deploy_obj[1])))

\* C22 witness: a run given an instance with a stored status applied all four
\* objects as for a status-less instance, and the stored status only made it
\* skip the status write
C22_Witness ==
    /\ DoneOk("active")
    /\ obj.status # None
    /\ \A k \in Kinds : AppliedOk(k) /\ kids[k] # None
    /\ StatusChanged([obj EXCEPT !.status = None], new_status[1])
    /\ ~StatusWritten

UniqueByType(list) ==
    \A i, j \in 1..Len(list) : i # j => list[i].type # list[j].type

\* C23: starting from a Resource whose condition list has no two entries of
\* one type, in every state the stored condition list has no two entries of
\* one type, and after a successful Active reconcile the stored list has
\* exactly one entry of type "Ready".
C23_ConditionsUnique ==
    /\ (res.status # None /\ res.status[1].conditions # None) =>
          UniqueByType(res.status[1].conditions[1])
    /\ DoneOk("active") =>
          /\ res.status # None
          /\ res.status[1].conditions # None
          /\ Cardinality({i \in 1..Len(res.status[1].conditions[1]) :
                             res.status[1].conditions[1][i].type = "Ready"}) = 1

\* C23 witness: a list that held an old "Ready" entry before an entry of
\* another type holds, after a successful run, the new "Ready" entry in the
\* same place and the other entry after it
C23_Witness ==
    /\ DoneOk("active")
    /\ obj.status # None
    /\ obj.status[1].conditions = Some(<<ready_condition(1), OtherCondition>>)
    /\ res.status # None
    /\ res.status[1].conditions = Some(<<ready_condition(0), OtherCondition>>)

\* C24: while the Resource is absent from the store no dependent object is
\* created or changed (one can only disappear); an Active reconcile run on a
\* stale instance of the removed Resource has issued no apply, and when its
\* finalizer write has returned it has failed and ended the run in error.
C24_NoWriteForAbsent ==
    /\ [][~res.exists => \A k \in Kinds : kids'[k] = kids[k] \/ kids'[k] = None]_vars
    /\ []((~res.exists /\ InActiveRun) =>
             /\ \A i \in 1..Len(writes) : writes[i].op # "apply"
             /\ Len(writes) <= 1
             /\ Len(writes) = 1 =>
                   /\ Call(writes[1]) = <<"patch", "RustOperator", "web">>
                   /\ writes[1].outcome = "err"
                   /\ DoneErr("active"))

\* C24 witness: the Resource is gone, the watch has not yet delivered its
\* removal, and an Active run given the stale instance ended in error at its
\* finalizer write with no dependent object in the store
C24_Witness ==
    /\ ~res.exists
    /\ cache # None
    /\ ~obj.deleting
    /\ DoneErr("active")
    /\ Len(writes) = 1
    /\ writes[1].outcome = "err"
    /\ \A k \in Kinds : kids[k] = None

PageOf(spec) ==
    desired_configmap(Name, labels(Name), spec.html, PureOwner).data["index.html"]

\* C25 as stated: two specs whose ConfigMap content is the same get the same
\* rollout-hash annotation on the Deployment.
C25_SamePageSameHash ==
    (pure.fn = "rollout_fingerprint" /\ pure.out # None) =>
        (PageOf(pure.a) = PageOf(pure.b) => pure.out[1][1] = pure.out[1][2])

\* C25 amended: two specs with the same html get the same rollout-hash
\* annotation; two specs whose html values differ get different annotations
\* also when both values are blank and the ConfigMap content is the same
\* placeholder page for both.
C25_BlankPagesDiffer ==
    (pure.fn = "rollout_fingerprint" /\ pure.out # None) =>
        /\ pure.a.html = pure.b.html => pure.out[1][1] = pure.out[1][2]
        /\ (Trim(pure.a.html) = <<>> /\ Trim(pure.b.html) = <<>>
               /\ pure.a.html # pure.b.html) =>
              /\ PageOf(pure.a) = PLACEHOLDER
              /\ PageOf(pure.b) = PLACEHOLDER
              /\ pure.out[1][1] # pure.out[1][2]

\* C25 witness: the empty html and a one-blank html, the same placeholder
\* page in the ConfigMap, two different rollout hashes
C25_Witness ==
    /\ pure.fn = "rollout_fingerprint"
    /\ pure.out # None
    /\ pure.a.html = <<>>
    /\ pure.b.html = <<" ">>
    /\ PageOf(pure.a) = PageOf(pure.b)
    /\ pure.out[1][1] # pure.out[1][2]

\* C26: after every successful Active reconcile the ConfigMap named by the
\* Deployment's volume is in the store, the Service is in the store and its
\* selector equals the Deployment's selector and its pod-template labels, and
\* an Ingress in the store names as backend that Service, "web-service", on
\* port 80, which is the port the Service exposes.
C26_ReferentialIntegrity ==
    DoneOk("active") =>
        /\ kids["Deployment"] # None
        /\ kids["ConfigMap"] # None
        /\ kids["Service"] # None
        /\ kids["ConfigMap"][1].name = kids["Deployment"][1].volume_configmap
        /\ kids["Service"][1].selector = kids["Deployment"][1].selector
        /\ kids["Service"][1].selector = kids["Deployment"][1].template_labels
        /\ kids["Ingress"] # None =>
              /\ kids["Ingress"][1].backend_service = kids["Service"][1].name
              /\ kids["Ingress"][1].backend_service = "web-service"
              /\ kids["Ingress"][1].backend_port = kids["Service"][1].port
              /\ kids["Ingress"][1].backend_port = 80

\* C26 witness: a successful run after a service-type edit left an Ingress
\* whose backend is the NodePort Service "web-service" on port 80
C26_Witness ==
    /\ DoneOk("active")
    /\ edits = 1
    /\ kids["Ingress"] # None
    /\ kids["Service"] # None
    /\ kids["Service"][1].type = "NodePort"
    /\ kids["Ingress"][1].backend_service = kids["Service"][1].name
    /\ kids["Deployment"][1].volume_configmap = "web"

\* C27: a reconcile of a Resource with deletion requested issues only deletes
\* and the finalizer write, never an apply or a status write; none of its
\* steps creates or changes a dependent object, and the spec and the status
\* of the Resource, as long as it is in the store, are after each of its
\* steps what they were before.
C27_TerminatingFrame ==
    /\ [](InTerminatingRun =>
             \A i \in 1..Len(writes) :
                /\ writes[i].op \in {"delete", "patch"}
                /\ writes[i].op = "patch" => i = 4)
    /\ [][(pc \in TerminatingPcs /\ pc' # pc) =>
             /\ \A k \in Kinds : kids'[k] = kids[k] \/ kids'[k] = None
             /\ res'.exists => (res'.spec = res.spec /\ res'.status = res.status)
             /\ new_status' = None]_vars

\* C27 witness: a Terminating run deleted the Deployment and ended with its
\* finalizer write failed, so the Resource is still in the store, with the
\* status an earlier Active run wrote still on it
C27_Witness ==
    /\ Done("terminating")
    /\ res.exists
    /\ res.deleting
    /\ res.status # None
    /\ Len(writes) = 4
    /\ writes[1].outcome = "ok"
    /\ writes[4].outcome = "err"

====
